---- MODULE Spec2Model ----
(***************************************************************************)
(* Model of mbabey/memory_manager (src/src/manager.c, include/manager.h).  *)
(*                                                                         *)
(* The heap is modelled as three pools handed out by the underlying        *)
(* allocator: user blocks (Addr), list nodes (struct memory_address, Node) *)
(* and managers (struct memory_manager, Mgr).  The allocator may fail, and *)
(* may hand out again any address that is currently free (address reuse).  *)
(*                                                                         *)
(* The contents of freed memory are indeterminate, so a freed node carries *)
(* no fields.  A call that dereferences a freed node or frees a block that *)
(* is not live has undefined behaviour: it may crash or return anything,   *)
(* and nothing is known of the heap afterwards (pc = "undefined").  A call *)
(* that walks a cyclic list never returns (pc = "diverge").  Either way    *)
(* the program has stopped being a program the source describes, and the   *)
(* model stops.                                                            *)
(*                                                                         *)
(* Each function of manager.c is an operator from a heap (and arguments)   *)
(* to its outcome, or to the set of its outcomes where the allocator       *)
(* chooses; the actions call_... are a client calling them.  A client      *)
(* passes NULL or a manager it has not destroyed, and passes realloc NULL  *)
(* or a block that is live.                                                *)
(***************************************************************************)
EXTENDS Integers, Sequences, FiniteSets, TLC

MaxMgr  == 1
MaxAddr == 2
MaxNode == 2

NULL == 0

Mgr  == 1..MaxMgr
Addr == 1..MaxAddr
Node == 1..MaxNode
\* A size_t argument, as far as the allocator tells sizes apart.
Size == {"zero", "positive"}
\* The file, func and line arguments of a call, as one value.
Origin == {"origin_a", "origin_b"}

Ptr  == Addr \cup {NULL}
\* The threads of a program that shares one registry between two threads.
Thread == {"thread_a", "thread_b"}
\* The values of an int result: -1, 0, or a count of nodes.
Status == (0 - 1)..MaxNode

VARIABLES
    mgrLive,    \* mgrLive[m]: the struct memory_manager m is allocated
    head,       \* head[m]: mem_manager->head
    nodeLive,   \* nodeLive[n]: the struct memory_address n is allocated
    nodeAddr,   \* nodeAddr[n]: ma->addr
    nodeNext,   \* nodeNext[n]: ma->next
    blkLive,    \* blkLive[a]: user block a is live in the allocator
    last,       \* the call that has just ended: name, arguments, result
    onlyInserts,\* no call other than init / mm_malloc / mm_calloc so far
    properUse,  \* every mm_realloc so far had a size above 0 and, for a block
                \* that a registry tracks, was given that registry
    pc,         \* "run", or how the last call left defined behaviour
    thr,        \* thr[t]: where thread t is in mm_malloc / mm_add, its locals
    lock,       \* the thread that holds the lock of the callers, or "nobody"
    lockMode    \* the callers take that lock around each call of mm_add

vars == <<mgrLive, head, nodeLive, nodeAddr, nodeNext, blkLive, last,
          onlyInserts, properUse, pc, thr, lock, lockMode>>

\* The heap as one value.
Heap == [mgr |-> mgrLive, head |-> head, lv |-> nodeLive, ad |-> nodeAddr,
         nx |-> nodeNext, blk |-> blkLive]

EmptyHeap == [mgr  |-> [m \in Mgr |-> FALSE],
              head |-> [m \in Mgr |-> NULL],
              lv   |-> [n \in Node |-> FALSE],
              ad   |-> [n \in Node |-> NULL],
              nx   |-> [n \in Node |-> NULL],
              blk  |-> [a \in Addr |-> FALSE]]

\* The outcome of a function: how it ended, the heap it leaves, its return
\* value, the arguments of its calls of free() in order, the messages it had
\* alloc_err write, and which allocation of the underlying allocator failed
\* in it: "none", that of the "block", or that of the "record" in mm_add.
Out(st, h, ret, freed, err) ==
    [st |-> st, h |-> h, ret |-> ret, freed |-> freed, err |-> err,
     failed |-> "none"]

\* alloc_err: one message on stderr, which names the file, func and line it
\* was given.
alloc_err(origin) == <<origin>>

----------------------------------------------------------------------------
(* List walks.                                                             *)

\* mm_add, lines 138-142: ma_cur runs to the node whose next is NULL.
RECURSIVE TailOf(_, _, _)
TailOf(h, ma_cur, seen) ==
    IF ~h.lv[ma_cur] THEN [st |-> "undefined", ma |-> NULL]
    ELSE IF ma_cur \in seen THEN [st |-> "diverge", ma |-> NULL]
    ELSE IF h.nx[ma_cur] = NULL THEN [st |-> "run", ma |-> ma_cur]
    ELSE TailOf(h, h.nx[ma_cur], seen \cup {ma_cur})

\* mm_free, lines 154-159: while (ma && ma->addr != mem), tracking ma_prev.
RECURSIVE ScanList(_, _, _, _, _)
ScanList(h, ma, ma_prev, mem, seen) ==
    IF ma = NULL THEN [st |-> "run", ma |-> NULL, ma_prev |-> ma_prev]
    ELSE IF ~h.lv[ma] THEN [st |-> "undefined", ma |-> NULL, ma_prev |-> NULL]
    ELSE IF h.ad[ma] = mem THEN [st |-> "run", ma |-> ma, ma_prev |-> ma_prev]
    ELSE IF ma \in seen THEN [st |-> "diverge", ma |-> NULL, ma_prev |-> NULL]
    ELSE ScanList(h, h.nx[ma], ma, mem, seen \cup {ma})

\* mm_find_in_list: the first node holding mem, NULL if there is none.
RECURSIVE FindFrom(_, _, _, _)
FindFrom(h, ma, mem, seen) ==
    IF ma = NULL THEN [st |-> "run", ma |-> NULL]
    ELSE IF ~h.lv[ma] THEN [st |-> "undefined", ma |-> NULL]
    ELSE IF h.ad[ma] = mem THEN [st |-> "run", ma |-> ma]
    ELSE IF ma \in seen THEN [st |-> "diverge", ma |-> NULL]
    ELSE FindFrom(h, h.nx[ma], mem, seen \cup {ma})

mm_find_in_list(h, m, mem) == FindFrom(h, h.head[m], mem, {})

\* The records reachable from a head, in list order, and how the walk ends.
RECURSIVE ChainOf(_, _, _)
ChainOf(h, ma, acc) ==
    IF ma = NULL THEN [st |-> "run", nodes |-> acc]
    ELSE IF ~h.lv[ma] THEN [st |-> "undefined", nodes |-> acc]
    ELSE IF \E i \in 1..Len(acc) : acc[i] = ma
         THEN [st |-> "diverge", nodes |-> acc]
    ELSE ChainOf(h, h.nx[ma], Append(acc, ma))

Chain(h, m) == ChainOf(h, h.head[m], <<>>)

\* The addresses stored by the records reachable from head, in list order.
Records(h, m) ==
    LET c == Chain(h, m).nodes IN [i \in 1..Len(c) |-> h.ad[c[i]]]

\* a is stored by a record reachable from the head of m.
Stores(h, m, a) == \E i \in 1..Len(Records(h, m)) : Records(h, m)[i] = a

----------------------------------------------------------------------------
(* The functions of manager.c.                                             *)

\* What the allocator may hand out from a pool: any free address that the
\* heap still refers to (a dangling reference makes its reuse visible), and
\* the lowest free address that nothing refers to (such addresses are
\* interchangeable, so one stands for all of them).
Lowest(S) == {x \in S : \A y \in S : x <= y}

FreeMgrs(h) == Lowest({mm \in Mgr : ~h.mgr[mm]})

NodeReferred(h, n) ==
    \/ \E mm \in Mgr : h.head[mm] = n
    \/ \E n2 \in Node : h.nx[n2] = n

FreeNodes(h) ==
    {n \in Node : ~h.lv[n] /\ NodeReferred(h, n)}
    \cup Lowest({n \in Node : ~h.lv[n] /\ ~NodeReferred(h, n)})

AddrReferred(h, a) == \E n \in Node : h.ad[n] = a

FreeAddrs(h) ==
    {a \in Addr : ~h.blk[a] /\ AddrReferred(h, a)}
    \cup Lowest({a \in Addr : ~h.blk[a] /\ ~AddrReferred(h, a)})

\* init_mem_manager: malloc the manager; on success head = NULL.
init_mem_manager(h) ==
    {Out("run", h, NULL, <<>>, <<>>)}
    \cup {Out("run", [h EXCEPT !.mgr[mm] = TRUE, !.head[mm] = NULL],
              mm, <<>>, <<>>) : mm \in FreeMgrs(h)}

\* mm_add: malloc a node, fill it, hang it on head or behind the last node.
mm_add(h, m, mem) ==
    {Out("run", h, NULL, <<>>, <<>>)}
    \cup {LET h1 == [h EXCEPT !.lv[ma] = TRUE, !.ad[ma] = mem, !.nx[ma] = NULL]
              t  == TailOf(h1, h1.head[m], {})
          IN  IF h1.head[m] = NULL
              THEN Out("run", [h1 EXCEPT !.head[m] = ma], mem, <<>>, <<>>)
              ELSE IF t.st = "run"
              THEN Out("run", [h1 EXCEPT !.nx[t.ma] = ma], mem, <<>>, <<>>)
              ELSE Out(t.st, h1, NULL, <<>>, <<>>)
          : ma \in FreeNodes(h)}

\* mm_free: find the first node holding mem, unlink it, free the block and
\* then the node.
mm_free(h, m, mem) ==
    LET s == ScanList(h, h.head[m], NULL, mem, {})
        a == h.ad[s.ma]
        h1 == IF s.ma = h.head[m]
              THEN [h EXCEPT !.head[m] = h.nx[s.ma]]
              ELSE [h EXCEPT !.nx[s.ma_prev] = h.nx[s.ma]]
    IN  IF s.st # "run" THEN Out(s.st, h, 0, <<>>, <<>>)
        ELSE IF s.ma = NULL THEN Out("run", h, 0 - 1, <<>>, <<>>)
        ELSE IF a # NULL /\ ~h1.blk[a]
        THEN Out("undefined", h1, 0, <<>>, <<>>)
        ELSE Out("run",
                 [h1 EXCEPT !.blk = [b \in Addr |-> IF b = a THEN FALSE ELSE @[b]],
                            !.lv[s.ma] = FALSE,
                            !.ad[s.ma] = NULL,
                            !.nx[s.ma] = NULL],
                 0, <<<<"blk", a>>, <<"node", s.ma>>>>, <<>>)

\* mm_free_recurse: the rest of the list first, then free(ma->addr) and
\* free(ma).  The outcome's ret is m_freed.
RECURSIVE mm_free_recurse(_, _, _)
mm_free_recurse(h, ma, seen) ==
    IF ma = NULL THEN Out("run", h, 0, <<>>, <<>>)
    ELSE IF ~h.lv[ma] THEN Out("undefined", h, 0, <<>>, <<>>)
    ELSE IF ma \in seen THEN Out("diverge", h, 0, <<>>, <<>>)
    ELSE LET r == mm_free_recurse(h, h.nx[ma], seen \cup {ma})
             a == r.h.ad[ma]
         IN  IF r.st # "run" THEN r
             ELSE IF a # NULL /\ ~r.h.blk[a]
             THEN Out("undefined", r.h, r.ret, r.freed, <<>>)
             ELSE Out("run",
                      [r.h EXCEPT !.blk = [b \in Addr |->
                                             IF b = a THEN FALSE ELSE @[b]],
                                  !.lv[ma] = FALSE,
                                  !.ad[ma] = NULL,
                                  !.nx[ma] = NULL],
                      1 + r.ret,
                      r.freed \o <<<<"blk", a>>, <<"node", ma>>>>, <<>>)

\* mm_free_all: mm_free_recurse from head; head itself is not written.
mm_free_all(h, m) == mm_free_recurse(h, h.head[m], {})

\* The frames of mm_free_recurse that are on the stack when the recursion is
\* at its deepest: one for the call itself, and below it those of the call
\* it makes on ma->next before it frees anything.
RECURSIVE mm_free_recurse_frames(_, _, _)
mm_free_recurse_frames(h, ma, seen) ==
    IF ma = NULL \/ ~h.lv[ma] \/ ma \in seen THEN 1
    ELSE 1 + mm_free_recurse_frames(h, h.nx[ma], seen \cup {ma})

\* The same for mm_free_all, which calls mm_free_recurse on head.
mm_free_all_frames(h, m) == 1 + mm_free_recurse_frames(h, h.head[m], {})

\* free_mem_manager: -1 for NULL; else mm_free_all, free the manager, 0.
free_mem_manager(h, m) ==
    IF m = NULL THEN Out("run", h, 0 - 1, <<>>, <<>>)
    ELSE LET r == mm_free_all(h, m)
         IN  IF r.st # "run" THEN r
             ELSE Out("run", [r.h EXCEPT !.mgr[m] = FALSE, !.head[m] = NULL],
                      0, r.freed \o <<<<"mgr", m>>>>, <<>>)

\* malloc / calloc of the underlying allocator: NULL, or a free address.
Malloc(h) ==
    {[mem |-> NULL, h |-> h]}
    \cup {[mem |-> a, h |-> [h EXCEPT !.blk[a] = TRUE]] :
            a \in FreeAddrs(h)}

\* The failing branch of mm_malloc, mm_calloc and mm_realloc: alloc_err with
\* the caller's file, func and line, then return NULL.
AllocFailure(h, origin, failed) ==
    [Out("run", h, NULL, <<>>, alloc_err(origin)) EXCEPT !.failed = failed]

\* The end of mm_malloc and mm_calloc after mm_add ended with o: mem is
\* returned whatever mm_add returned.
AfterAdd(o, mem) ==
    [Out(o.st, o.h, mem, <<>>, <<>>) EXCEPT
       !.failed = IF o.st = "run" /\ o.ret = NULL THEN "record" ELSE "none"]

\* mm_malloc with the call of mm_add written twice.
mm_malloc_twice(h, size, m, origin) ==
    UNION {IF r.mem = NULL THEN {AllocFailure(h, origin, "block")}
           ELSE IF m = NULL THEN {Out("run", r.h, r.mem, <<>>, <<>>)}
           ELSE UNION {IF o.st # "run" THEN {AfterAdd(o, r.mem)}
                       ELSE {AfterAdd(o2, r.mem) :
                               o2 \in mm_add(o.h, m, r.mem)}
                       : o \in mm_add(r.h, m, r.mem)}
           : r \in Malloc(h)}

\* mm_malloc: malloc; alloc_err and NULL on failure; mm_add if a manager was
\* given, whose result is not looked at.
mm_malloc(h, size, m, origin) ==
    UNION {IF r.mem = NULL THEN {AllocFailure(h, origin, "block")}
           ELSE IF m = NULL THEN {Out("run", r.h, r.mem, <<>>, <<>>)}
           ELSE {AfterAdd(o, r.mem) : o \in mm_add(r.h, m, r.mem)}
           : r \in Malloc(h)}

\* mm_calloc with the call of mm_add moved in front of the test of mem.
mm_calloc_add_first(h, count, size, m, origin) ==
    UNION {IF m = NULL
           THEN {IF r.mem = NULL THEN AllocFailure(h, origin, "block")
                 ELSE Out("run", r.h, r.mem, <<>>, <<>>)}
           ELSE {IF r.mem = NULL /\ o.st = "run"
                 THEN AllocFailure(o.h, origin, "block")
                 ELSE AfterAdd(o, r.mem) : o \in mm_add(r.h, m, r.mem)}
           : r \in Malloc(h)}

\* mm_calloc: as mm_malloc, with calloc.
mm_calloc(h, count, size, m, origin) ==
    UNION {IF r.mem = NULL THEN {AllocFailure(h, origin, "block")}
           ELSE IF m = NULL THEN {Out("run", r.h, r.mem, <<>>, <<>>)}
           ELSE {AfterAdd(o, r.mem) : o \in mm_add(r.h, m, r.mem)}
           : r \in Malloc(h)}

\* realloc of the underlying allocator.  It may fail and leave ptr alone,
\* resize in place, or move the block to an address that was free and free
\* ptr; with size 0 it may also free ptr and return NULL, which is not a
\* failure.
Realloc(h, ptr, size) ==
    {[mem |-> NULL, h |-> h, failed |-> TRUE]}
    \cup {[mem |-> NULL, h |-> [h EXCEPT !.blk[ptr] = FALSE],
           failed |-> FALSE] :
            x \in {y \in {ptr} : ptr # NULL /\ size = "zero"}}
    \cup {[mem |-> ptr, h |-> h, failed |-> FALSE] :
            x \in {y \in {ptr} : ptr # NULL}}
    \cup {[mem |-> a,
           h |-> [h EXCEPT !.blk = [b \in Addr |-> IF b = a THEN TRUE
                                                   ELSE IF b = ptr THEN FALSE
                                                   ELSE @[b]]],
           failed |-> FALSE] :
            a \in FreeAddrs(h)}

\* mm_realloc without the test of mem_manager: mm_find_in_list reads the
\* head of a NULL manager.
mm_realloc_unguarded(h, ptr, size, m, origin) ==
    {LET f == mm_find_in_list(r.h, m, ptr)
     IN  IF r.mem = NULL
         THEN AllocFailure(r.h, origin, IF r.failed THEN "block" ELSE "none")
         ELSE IF m = NULL THEN Out("undefined", r.h, r.mem, <<>>, <<>>)
         ELSE IF f.st # "run" THEN Out(f.st, r.h, r.mem, <<>>, <<>>)
         ELSE IF f.ma # NULL
         THEN Out("run", [r.h EXCEPT !.ad[f.ma] = r.mem], r.mem, <<>>, <<>>)
         ELSE Out("run", r.h, r.mem, <<>>, <<>>)
     : r \in Realloc(h, ptr, size)}

\* mm_realloc: realloc; alloc_err and NULL when it returns NULL; with a
\* manager, the node found holding ptr, if any, is made to hold the new
\* address.
mm_realloc(h, ptr, size, m, origin) ==
    {LET f == mm_find_in_list(r.h, m, ptr)
     IN  IF r.mem = NULL
         THEN AllocFailure(r.h, origin, IF r.failed THEN "block" ELSE "none")
         ELSE IF m = NULL THEN Out("run", r.h, r.mem, <<>>, <<>>)
         ELSE IF f.st # "run" THEN Out(f.st, r.h, r.mem, <<>>, <<>>)
         ELSE IF f.ma # NULL
         THEN Out("run", [r.h EXCEPT !.ad[f.ma] = r.mem], r.mem, <<>>, <<>>)
         ELSE Out("run", r.h, r.mem, <<>>, <<>>)
     : r \in Realloc(h, ptr, size)}

----------------------------------------------------------------------------
(* The client.  It calls a function, which runs to its end (call_...), and *)
(* then goes on with the result (client_resumes).                          *)

\* last.returned is FALSE when the call crashed or never came back.
NoCall == [op |-> "none", m |-> NULL, ptr |-> NULL, size |-> "positive",
           origin |-> "none", ret |-> NULL, returned |-> TRUE, freed |-> <<>>,
           err |-> <<>>, failed |-> "none"]

\* A thread that is in no call: the locals mem (mm_malloc), ma and ma_cur
\* (mm_add), and res, what its last call of mm_add returned.
NoThread == [pc |-> "idle", mem |-> NULL, ma |-> NULL, ma_cur |-> NULL,
             res |-> NULL]

Init ==
    /\ thr = [t \in Thread |-> NoThread]
    /\ lock = "nobody"
    /\ lockMode = FALSE
    /\ mgrLive  = EmptyHeap.mgr
    /\ head     = EmptyHeap.head
    /\ nodeLive = EmptyHeap.lv
    /\ nodeAddr = EmptyHeap.ad
    /\ nodeNext = EmptyHeap.nx
    /\ blkLive  = EmptyHeap.blk
    /\ last = NoCall
    /\ onlyInserts = TRUE
    /\ properUse = TRUE
    /\ pc = "run"

\* The call op(m, ptr, size) ended with outcome o.  A call that returns
\* inside defined behaviour leaves o.h and o.ret.  Outside it, it crashes or
\* returns some value of its return type (rets) and the heap is unknown; a
\* call that diverges does not return.
Commit(op, m, ptr, size, origin, o, rets) ==
    LET c == [op |-> op, m |-> m, ptr |-> ptr, size |-> size,
              origin |-> origin, ret |-> o.ret, returned |-> TRUE,
              freed |-> o.freed, err |-> o.err, failed |-> o.failed]
        h == IF o.st = "run" THEN o.h ELSE EmptyHeap
    IN  /\ mgrLive' = h.mgr
        /\ head' = h.head
        /\ nodeLive' = h.lv
        /\ nodeAddr' = h.ad
        /\ nodeNext' = h.nx
        /\ blkLive' = h.blk
        /\ pc' = o.st
        /\ UNCHANGED <<thr, lock, lockMode>>
        /\ last' \in
             IF o.st = "run" THEN {c}
             ELSE IF o.st = "diverge" THEN {[c EXCEPT !.returned = FALSE]}
             ELSE {[c EXCEPT !.ret = r, !.returned = b] :
                     r \in rets, b \in BOOLEAN}

\* What a client may pass.
LiveMgrs == {m \in Mgr : mgrLive[m]}
LiveBlks == {a \in Addr : blkLive[a]}

Idle == pc = "run" /\ last.op = "none"

\* Where a thread can be: in no call, in mm_malloc, at the caller's lock, at
\* a statement of mm_add, or back from mm_add.
ThreadPc == {"idle", "malloc", "acquire", "add_malloc", "add_fill",
             "add_test_head", "add_set_head", "add_load_head", "add_walk",
             "add_link", "return", "done"}

call_init_mem_manager ==
    /\ Idle
    /\ \E o \in init_mem_manager(Heap) :
         Commit("init_mem_manager", NULL, NULL, "positive", "none", o,
                Mgr \cup {NULL})
    /\ UNCHANGED <<onlyInserts, properUse>>

call_mm_malloc ==
    /\ Idle
    /\ \E m \in LiveMgrs \cup {NULL}, size \in Size, origin \in Origin :
         \E o \in mm_malloc(Heap, size, m, origin) :
           Commit("mm_malloc", m, NULL, size, origin, o, Ptr)
    /\ UNCHANGED <<onlyInserts, properUse>>

call_mm_calloc ==
    /\ Idle
    /\ \E m \in LiveMgrs \cup {NULL}, size \in Size, origin \in Origin :
         \E o \in mm_calloc(Heap, 1, size, m, origin) :
           Commit("mm_calloc", m, NULL, size, origin, o, Ptr)
    /\ UNCHANGED <<onlyInserts, properUse>>

call_mm_realloc ==
    /\ Idle
    /\ \E ptr \in LiveBlks \cup {NULL}, size \in Size,
          m \in LiveMgrs \cup {NULL}, origin \in Origin :
         /\ \E o \in mm_realloc(Heap, ptr, size, m, origin) :
              Commit("mm_realloc", m, ptr, size, origin, o, Ptr)
         /\ properUse' = (/\ properUse
                          /\ size # "zero"
                          /\ \A m2 \in LiveMgrs :
                               Stores(Heap, m2, ptr) => m2 = m)
    /\ onlyInserts' = FALSE

call_mm_free ==
    /\ Idle
    /\ \E m \in LiveMgrs, mem \in Ptr :
         Commit("mm_free", m, mem, "positive", "none", mm_free(Heap, m, mem),
                Status)
    /\ onlyInserts' = FALSE
    /\ UNCHANGED properUse

call_mm_free_all ==
    /\ Idle
    /\ \E m \in LiveMgrs :
         Commit("mm_free_all", m, NULL, "positive", "none",
                mm_free_all(Heap, m), Status)
    /\ onlyInserts' = FALSE
    /\ UNCHANGED properUse

call_free_mem_manager ==
    /\ Idle
    /\ \E m \in LiveMgrs \cup {NULL} :
         Commit("free_mem_manager", m, NULL, "positive", "none",
                free_mem_manager(Heap, m), Status)
    /\ onlyInserts' = FALSE
    /\ UNCHANGED properUse

client_resumes ==
    /\ pc = "run"
    /\ last.op # "none"
    /\ last' = NoCall
    /\ UNCHANGED <<mgrLive, head, nodeLive, nodeAddr, nodeNext, blkLive,
                   onlyInserts, properUse, pc, thr, lock, lockMode>>

Next ==
    \/ call_init_mem_manager
    \/ call_mm_malloc
    \/ call_mm_calloc
    \/ call_mm_realloc
    \/ call_mm_free
    \/ call_mm_free_all
    \/ call_free_mem_manager
    \/ client_resumes

Spec == Init /\ [][Next]_vars

TypeOK ==
    /\ mgrLive  \in [Mgr -> BOOLEAN]
    /\ head     \in [Mgr -> Node \cup {NULL}]
    /\ nodeLive \in [Node -> BOOLEAN]
    /\ nodeAddr \in [Node -> Ptr]
    /\ nodeNext \in [Node -> Node \cup {NULL}]
    /\ blkLive  \in [Addr -> BOOLEAN]
    /\ onlyInserts \in BOOLEAN
    /\ properUse \in BOOLEAN
    /\ pc \in {"run", "undefined", "diverge"}
    /\ thr \in [Thread -> [pc : ThreadPc, mem : Ptr, ma : Node \cup {NULL},
                           ma_cur : Node \cup {NULL}, res : Ptr]]
    /\ lock \in Thread \cup {"nobody"}
    /\ lockMode \in BOOLEAN

----------------------------------------------------------------------------
(* Two threads that call mm_malloc with one registry, the statements of    *)
(* mm_add interleaved.  The library takes no lock; with lockMode the       *)
(* callers hold a lock of their own from before each call of mm_add until  *)
(* it has returned.                                                        *)

\* The registry the threads share: the one init_mem_manager returned first.
Shared == CHOOSE m \in Mgr : \A m2 \in Mgr : m <= m2

ConcInit ==
    /\ thr = [t \in Thread |-> NoThread]
    /\ lock = "nobody"
    /\ lockMode \in BOOLEAN
    /\ mgrLive  = [EmptyHeap.mgr EXCEPT ![Shared] = TRUE]
    /\ head     = EmptyHeap.head
    /\ nodeLive = EmptyHeap.lv
    /\ nodeAddr = EmptyHeap.ad
    /\ nodeNext = EmptyHeap.nx
    /\ blkLive  = EmptyHeap.blk
    /\ last = NoCall
    /\ onlyInserts = TRUE
    /\ properUse = TRUE
    /\ pc = "run"

ClientVars == <<last, onlyInserts, properUse, pc, lockMode>>

\* Thread t goes to position p, its locals changed as the record d says.
Goes(t, p, d) ==
    thr' = [thr EXCEPT ![t] = [f \in DOMAIN NoThread |->
                                 IF f = "pc" THEN p
                                 ELSE IF f \in DOMAIN d THEN d[f]
                                 ELSE thr[t][f]]]

\* t calls mm_malloc(size, Shared, ...).
t_call(t) ==
    /\ thr[t].pc \in {"idle", "done"}
    /\ Goes(t, "malloc", [mem |-> NULL, res |-> NULL])
    /\ UNCHANGED <<mgrLive, head, nodeLive, nodeAddr, nodeNext, blkLive, lock,
                   ClientVars>>

\* mm_malloc, line 210: malloc, which is thread-safe; NULL is returned at
\* once, otherwise mm_add is called.
t_malloc(t) ==
    /\ thr[t].pc = "malloc"
    /\ \E r \in Malloc(Heap) :
         /\ blkLive' = r.h.blk
         /\ Goes(t, IF r.mem = NULL THEN "done"
                    ELSE IF lockMode THEN "acquire" ELSE "add_malloc",
                 [mem |-> r.mem])
    /\ UNCHANGED <<mgrLive, head, nodeLive, nodeAddr, nodeNext, lock,
                   ClientVars>>

\* The caller takes its lock before it lets mm_add run.
t_acquire(t) ==
    /\ thr[t].pc = "acquire"
    /\ lock = "nobody"
    /\ lock' = t
    /\ Goes(t, "add_malloc", <<>>)
    /\ UNCHANGED <<mgrLive, head, nodeLive, nodeAddr, nodeNext, blkLive,
                   ClientVars>>

\* mm_add, lines 124-127: malloc of the node; NULL is returned on failure.
add_malloc(t) ==
    /\ thr[t].pc = "add_malloc"
    /\ \/ /\ Goes(t, "return", [res |-> NULL])
          /\ UNCHANGED nodeLive
       \/ \E ma \in FreeNodes(Heap) :
            /\ nodeLive' = [nodeLive EXCEPT ![ma] = TRUE]
            /\ Goes(t, "add_fill", [ma |-> ma])
    /\ UNCHANGED <<mgrLive, head, nodeAddr, nodeNext, blkLive, lock,
                   ClientVars>>

\* mm_add, lines 129-130: ma->addr = mem; ma->next = NULL.
add_fill(t) ==
    /\ thr[t].pc = "add_fill"
    /\ nodeAddr' = [nodeAddr EXCEPT ![thr[t].ma] = thr[t].mem]
    /\ nodeNext' = [nodeNext EXCEPT ![thr[t].ma] = NULL]
    /\ Goes(t, "add_test_head", <<>>)
    /\ UNCHANGED <<mgrLive, head, nodeLive, blkLive, lock, ClientVars>>

\* mm_add, line 132: if (mem_manager->head == NULL).
add_test_head(t) ==
    /\ thr[t].pc = "add_test_head"
    /\ Goes(t, IF head[Shared] = NULL THEN "add_set_head"
               ELSE "add_load_head", <<>>)
    /\ UNCHANGED <<mgrLive, head, nodeLive, nodeAddr, nodeNext, blkLive, lock,
                   ClientVars>>

\* mm_add with line 134 left out: it returns ma->addr and head is not set.
add_set_head_skipped(t) ==
    /\ thr[t].pc = "add_set_head"
    /\ head' = head
    /\ Goes(t, "return", [res |-> nodeAddr[thr[t].ma]])
    /\ UNCHANGED <<mgrLive, nodeLive, nodeAddr, nodeNext, blkLive, lock,
                   ClientVars>>

\* mm_add, lines 134-135: mem_manager->head = ma; return ma->addr.
add_set_head(t) ==
    /\ thr[t].pc = "add_set_head"
    /\ head' = [head EXCEPT ![Shared] = thr[t].ma]
    /\ Goes(t, "return", [res |-> nodeAddr[thr[t].ma]])
    /\ UNCHANGED <<mgrLive, nodeLive, nodeAddr, nodeNext, blkLive, lock,
                   ClientVars>>

\* mm_add, line 138: ma_cur = mem_manager->head.
add_load_head(t) ==
    /\ thr[t].pc = "add_load_head"
    /\ Goes(t, "add_walk", [ma_cur |-> head[Shared]])
    /\ UNCHANGED <<mgrLive, head, nodeLive, nodeAddr, nodeNext, blkLive, lock,
                   ClientVars>>

\* mm_add, lines 139-142: one test of the loop, and one step if it holds.
add_walk(t) ==
    /\ thr[t].pc = "add_walk"
    /\ IF nodeNext[thr[t].ma_cur] # NULL
       THEN Goes(t, "add_walk", [ma_cur |-> nodeNext[thr[t].ma_cur]])
       ELSE Goes(t, "add_link", <<>>)
    /\ UNCHANGED <<mgrLive, head, nodeLive, nodeAddr, nodeNext, blkLive, lock,
                   ClientVars>>

\* mm_add, lines 143-145: ma_cur->next = ma; return ma->addr.
add_link(t) ==
    /\ thr[t].pc = "add_link"
    /\ nodeNext' = [nodeNext EXCEPT ![thr[t].ma_cur] = thr[t].ma]
    /\ Goes(t, "return", [res |-> nodeAddr[thr[t].ma]])
    /\ UNCHANGED <<mgrLive, head, nodeLive, nodeAddr, blkLive, lock,
                   ClientVars>>

\* mm_add has returned; the caller gives up its lock if it took one, and
\* mm_malloc returns mem.
t_return(t) ==
    /\ thr[t].pc = "return"
    /\ lock' = IF lock = t THEN "nobody" ELSE lock
    /\ Goes(t, "done", [ma |-> NULL, ma_cur |-> NULL])
    /\ UNCHANGED <<mgrLive, head, nodeLive, nodeAddr, nodeNext, blkLive,
                   ClientVars>>

ConcNext ==
    \E t \in Thread :
      \/ t_call(t)
      \/ t_malloc(t)
      \/ t_acquire(t)
      \/ add_malloc(t)
      \/ add_fill(t)
      \/ add_test_head(t)
      \/ add_set_head(t)
      \/ add_load_head(t)
      \/ add_walk(t)
      \/ add_link(t)
      \/ t_return(t)

ConcSpec == ConcInit /\ [][ConcNext]_vars
----------------------------------------------------------------------------
(* The claims.  A claim about a call is an action formula over the step of *)
(* that call: last' holds the call, the unprimed variables the heap before *)
(* it and the primed ones the heap after it.  Where a claim is refuted,   *)
(* it is refuted for a client with properUse, which resizes a tracked block*)
(* only through its registry and never to size 0: such a client makes no   *)
(* record stale or dangling by its own doing.                              *)

\* No two records reachable from the head of m store the same address.
Distinct(h, m) ==
    \A i, j \in 1..Len(Records(h, m)) :
      i # j => Records(h, m)[i] # Records(h, m)[j]

\* m holds exactly Len(Records(h, m)) live records: the list ends in NULL,
\* and the records store distinct live blocks.
Tidy(h, m) ==
    /\ Chain(h, m).st = "run"
    /\ Distinct(h, m)
    /\ \A i \in 1..Len(Records(h, m)) : h.blk[Records(h, m)[i]]

\* The registries are as they were: the managers, their heads, the nodes.
RegistriesUnchanged ==
    /\ mgrLive' = mgrLive
    /\ head' = head
    /\ nodeLive' = nodeLive
    /\ nodeAddr' = nodeAddr
    /\ nodeNext' = nodeNext

\* The blocks passed to free() by the last call, in order.
BlocksFreed(c) == SelectSeq(c.freed, LAMBDA f : f[1] = "blk")

\* C1: mm_free_all on a registry that holds exactly N live records returns
\* N and leaves the registry empty (head is NULL), and a second mm_free_all
\* right after it returns 0.
C1_ReleaseAllCountsAndEmpties ==
    [][(last'.op = "mm_free_all" /\ Tidy(Heap, last'.m)) =>
         /\ pc' = "run"
         /\ last'.ret = Len(Records(Heap, last'.m))
         /\ head'[last'.m] = NULL
         /\ mm_free_all(Heap', last'.m).st = "run"
         /\ mm_free_all(Heap', last'.m).ret = 0]_vars

\* C2: in every reachable state, every record reachable from the head of a
\* registry is a live record whose address is a block that is live in the
\* allocator.
C2_TrackedBlocksLive ==
    (pc = "run" /\ properUse) =>
      \A m \in LiveMgrs :
        /\ Chain(Heap, m).st # "undefined"
        /\ \A i \in 1..Len(Records(Heap, m)) : blkLive[Records(Heap, m)[i]]

C4_ReleasedNotFound ==
    (last.op = "mm_free" /\ pc = "run" /\ last.ret = 0 /\ properUse) =>
      /\ mm_find_in_list(Heap, last.m, last.ptr) = [st |-> "run", ma |-> NULL]
      /\ mm_free(Heap, last.m, last.ptr).st = "run"
      /\ mm_free(Heap, last.m, last.ptr).ret = 0 - 1

\* C5: when mm_realloc with a registry that stores ptr succeeds and moves
\* the block, mm_find_in_list finds the new address in that registry and
\* does not find the old one, and the registry has as many records as before.
C5_ResizeRetargets ==
    [][(/\ last'.op = "mm_realloc"
        /\ last'.m # NULL
        /\ last'.ptr # NULL
        /\ Stores(Heap, last'.m, last'.ptr)
        /\ properUse'
        /\ pc' = "run"
        /\ last'.ret # NULL
        /\ last'.ret # last'.ptr) =>
         /\ mm_find_in_list(Heap', last'.m, last'.ret).st = "run"
         /\ mm_find_in_list(Heap', last'.m, last'.ret).ma # NULL
         /\ mm_find_in_list(Heap', last'.m, last'.ptr)
              = [st |-> "run", ma |-> NULL]
         /\ Len(Records(Heap', last'.m)) = Len(Records(Heap, last'.m))]_vars

\* C6: when mm_realloc of a block that a record of the given registry stores
\* returns NULL, the registry is unchanged and the block is still live.
C6_FailedResizeChangesNothing ==
    [][(/\ last'.op = "mm_realloc"
        /\ last'.m # NULL
        /\ last'.ptr # NULL
        /\ Stores(Heap, last'.m, last'.ptr)
        /\ pc' = "run"
        /\ last'.ret = NULL) =>
         /\ RegistriesUnchanged
         /\ blkLive'[last'.ptr]]_vars

\* C7: mm_free of an address that no record of the registry stores returns
\* -1, calls free() on nothing and changes nothing.
C7_ReleaseOfUnknownAddress ==
    [][(/\ last'.op = "mm_free"
        /\ ~Stores(Heap, last'.m, last'.ptr)
        /\ properUse') =>
         /\ pc' = "run"
         /\ last'.ret = 0 - 1
         /\ last'.freed = <<>>
         /\ RegistriesUnchanged
         /\ blkLive' = blkLive]_vars

\* C8: free_mem_manager on a valid registry frees exactly the blocks it
\* still tracks, each once, and then the registry itself.
C8_DestroyFreesTracked ==
    [][(last'.op = "free_mem_manager" /\ last'.m # NULL /\ properUse') =>
         /\ pc' = "run"
         /\ {f[2] : f \in {BlocksFreed(last')[i] :
                              i \in 1..Len(BlocksFreed(last'))}}
              = {Records(Heap, last'.m)[i] :
                   i \in 1..Len(Records(Heap, last'.m))}
         /\ Len(BlocksFreed(last')) = Len(Records(Heap, last'.m))
         /\ Distinct(Heap, last'.m)
         /\ last'.freed # <<>>
         /\ last'.freed[Len(last'.freed)] = <<"mgr", last'.m>>
         /\ ~mgrLive'[last'.m]]_vars

\* C9: free_mem_manager returns -1 exactly when the registry is NULL, and
\* then frees nothing and changes nothing; for every valid registry it
\* returns 0.
C9_DestroyStatus ==
    [][(last'.op = "free_mem_manager" /\ properUse') =>
         IF last'.m = NULL
         THEN /\ pc' = "run"
              /\ last'.ret = 0 - 1
              /\ last'.freed = <<>>
              /\ RegistriesUnchanged
              /\ blkLive' = blkLive
         ELSE /\ pc' = "run"
              /\ last'.returned
              /\ last'.ret = 0]_vars

\* C10: mm_malloc, mm_calloc and mm_realloc with a NULL registry and a
\* succeeding allocation return a live block and leave every registry as it
\* was.
C10_UntrackedPath ==
    [][(/\ last'.op \in {"mm_malloc", "mm_calloc", "mm_realloc"}
        /\ last'.m = NULL
        /\ last'.ret # NULL) =>
         /\ pc' = "run"
         /\ last'.returned
         /\ blkLive'[last'.ret]
         /\ RegistriesUnchanged]_vars

\* C10's case: an untracked resize succeeded while a registry holds a record.
C10_Witness ==
    /\ pc = "run"
    /\ last.op = "mm_realloc"
    /\ last.m = NULL
    /\ last.ret # NULL
    /\ \E m \in LiveMgrs : Len(Records(Heap, m)) >= 1

\* The sequence s without its i-th element.
RemoveAt(s, i) == SubSeq(s, 1, i - 1) \o SubSeq(s, i + 1, Len(s))

\* The index of the first record of m that stores a (0 if there is none).
FirstIndex(h, m, a) ==
    LET I == {i \in 1..Len(Records(h, m)) : Records(h, m)[i] = a}
    IN  IF I = {} THEN 0 ELSE CHOOSE i \in I : \A j \in I : i <= j

\* The call with outcome o stays in defined behaviour and does not pass
\* block a to free().
DoesNotFree(o, a) ==
    /\ o.st = "run"
    /\ \A i \in 1..Len(o.freed) : o.freed[i] # <<"blk", a>>

Allocators == {"mm_malloc", "mm_calloc", "mm_realloc"}

\* C11: when the allocation of the block fails in mm_malloc or mm_calloc,
\* the call returns NULL, and no registry and no block is changed.
C11_FailedAllocationChangesNothing ==
    [][(/\ last'.op \in {"mm_malloc", "mm_calloc"}
        /\ last'.failed = "block") =>
         /\ pc' = "run"
         /\ last'.returned
         /\ last'.ret = NULL
         /\ RegistriesUnchanged
         /\ blkLive' = blkLive]_vars

\* C11's case: an allocation for a registry that holds a record has failed.
C11_Witness ==
    /\ last.op \in {"mm_malloc", "mm_calloc"}
    /\ last.failed = "block"
    /\ last.m # NULL
    /\ Len(Records(Heap, last.m)) >= 1

C13_SwallowedInsertFailure ==
    [][(/\ last'.op \in {"mm_malloc", "mm_calloc"}
        /\ last'.m # NULL
        /\ last'.failed = "record"
        /\ properUse') =>
         /\ pc' = "run"
         /\ last'.ret # NULL
         /\ blkLive'[last'.ret]
         /\ RegistriesUnchanged
         /\ DoesNotFree(mm_free_all(Heap', last'.m), last'.ret)
         /\ DoesNotFree(free_mem_manager(Heap', last'.m), last'.ret)]_vars

\* C14: a tracked mm_malloc / mm_calloc in which both allocations succeed
\* returns the block and leaves the sequence of the registry as it was with
\* one record more, at the end, that stores the block.
C14_InsertAppends ==
    [][(/\ last'.op \in {"mm_malloc", "mm_calloc"}
        /\ last'.m # NULL
        /\ last'.failed = "none"
        /\ properUse') =>
         /\ pc' = "run"
         /\ last'.ret # NULL
         /\ Chain(Heap', last'.m).st = "run"
         /\ Len(Chain(Heap', last'.m).nodes)
              = Len(Chain(Heap, last'.m).nodes) + 1
         /\ SubSeq(Chain(Heap', last'.m).nodes, 1,
                   Len(Chain(Heap, last'.m).nodes))
              = Chain(Heap, last'.m).nodes
         /\ Records(Heap', last'.m)
              = Append(Records(Heap, last'.m), last'.ret)]_vars

\* C15: a successful mm_realloc with a registry of which no record stores
\* ptr (ptr may be NULL) leaves the registry unchanged; the block returned is
\* not stored by it, and neither mm_free_all nor free_mem_manager called
\* next frees it.
C15_ResizeOfUntrackedBlock ==
    [][(/\ last'.op = "mm_realloc"
        /\ last'.m # NULL
        /\ ~Stores(Heap, last'.m, last'.ptr)
        /\ last'.failed = "none"
        /\ properUse') =>
         /\ pc' = "run"
         /\ last'.ret # NULL
         /\ RegistriesUnchanged
         /\ ~Stores(Heap', last'.m, last'.ret)
         /\ DoesNotFree(mm_free_all(Heap', last'.m), last'.ret)
         /\ DoesNotFree(free_mem_manager(Heap', last'.m), last'.ret)]_vars

\* C16: mm_free(a) that returns 0 takes exactly the first record storing a
\* out of the sequence, which is otherwise as before, and frees block a and
\* then that record, and nothing else.
C16_ReleaseRemovesOneRecord ==
    [][(/\ last'.op = "mm_free"
        /\ pc' = "run"
        /\ last'.ret = 0
        /\ properUse') =>
         LET i == FirstIndex(Heap, last'.m, last'.ptr)
             c == Chain(Heap, last'.m).nodes
         IN  /\ i # 0
             /\ Chain(Heap', last'.m) = [st |-> "run", nodes |-> RemoveAt(c, i)]
             /\ Records(Heap', last'.m)
                  = RemoveAt(Records(Heap, last'.m), i)
             /\ last'.freed = <<<<"blk", last'.ptr>>, <<"node", c[i]>>>>]_vars

C18_ReleaseAllStackDepth ==
    [][(last'.op = "mm_free_all" /\ Tidy(Heap, last'.m)) =>
         mm_free_all_frames(Heap, last'.m)
           = mm_free_all_frames([Heap EXCEPT !.head[last'.m] = NULL],
                                last'.m)]_vars

\* Every thread is back from a call in which mm_add returned success, and
\* the address of one of them is not stored by any record reachable from head.
LostRecord ==
    /\ \A t \in Thread : thr[t].pc = "done" /\ thr[t].res # NULL
    /\ \E t \in Thread : ~Stores(Heap, Shared, thr[t].res)

\* C19: with every call of mm_add made under a lock, no state is reached in
\* which both threads' inserts returned success and one of the two addresses
\* is not reachable from head.
C19_LockedInsertsLoseNoRecord ==
    lockMode => ~LostRecord

\* C19's case without the lock: both inserts returned success, and one of
\* the two addresses is not reachable from head.
C19_Witness ==
    ~lockMode /\ LostRecord

\* C20: whatever the client calls on a registry, no block and no record is
\* freed twice and no freed record is read.
C20_NoDoubleFree ==
    properUse => pc # "undefined"
====
